---------------------------- MODULE Spec2Model ----------------------------
(***************************************************************************)
(* Password generator (src/src/App.jsx): the pure core (sanitizeCharset,   *)
(* cryptoRandomInt, shuffleCrypto, buildPools, generatePassword,            *)
(* estimateStrength) and the App component that calls it (settings, load   *)
(* of persisted preferences, generation, session history, copy toast).     *)
(*                                                                         *)
(* Characters are one-character strings, a JavaScript string is a sequence *)
(* of them (0-based index i of the code is index i + 1 here).              *)
(***************************************************************************)
EXTENDS Integers, Sequences, FiniteSets

VARIABLES
    length, useUpper, useLower, useDigits, useSymbols, easyToRead,
    password, history, copyStatus,
    toastTimerRef,   \* toastTimerRef.current: 0 for null, else a timer id
    timers,          \* ids of the window.setTimeout timers still pending
    nextTimerId,     \* the id the next window.setTimeout returns
    pendingWrites,   \* navigator.clipboard.writeText promises not yet settled
    storage,         \* localStorage[STORAGE_KEY]
    bootRecord,      \* what storage held when the component was constructed
    mounted,         \* the mount effects (lines 123-158, 214-217) have run
    call,            \* the latest invocation of a core function: its arguments
    ret,             \* ... and what it returned (Pending until it returns)
    genLog,          \* every value handleGenerate produced, oldest first
    lastOp,          \* the handler that ran last
    events,          \* handlers run since the mount effects
    copies           \* handleCopy calls so far

vars == <<length, useUpper, useLower, useDigits, useSymbols, easyToRead,
          password, history, copyStatus, toastTimerRef, timers, nextTimerId,
          pendingWrites, storage, bootRecord, mounted, call, ret, genLog,
          lastOp, events, copies>>

settingsVars == <<length, useUpper, useLower, useDigits, useSymbols, easyToRead>>
copyVars == <<copyStatus, toastTimerRef, timers, nextTimerId, pendingWrites, copies>>
outputVars == <<password, history, genLog>>
bootVars == <<storage, bootRecord, mounted>>
coreVars == <<call, ret>>

-----------------------------------------------------------------------------
(* Program constants *)

DEFAULT_LENGTH == 12
MIN_LENGTH == 8
MAX_LENGTH == 32

AMBIGUOUS == {"1", "l", "I", "0", "O", "o"}

CHARSETS ==
    [upper   |-> <<"A","B","C","D","E","F","G","H","I","J","K","L","M",
                   "N","O","P","Q","R","S","T","U","V","W","X","Y","Z">>,
     lower   |-> <<"a","b","c","d","e","f","g","h","i","j","k","l","m",
                   "n","o","p","q","r","s","t","u","v","w","x","y","z">>,
     digits  |-> <<"0","1","2","3","4","5","6","7","8","9">>,
     symbols |-> <<"!","@","#","$","%","^","&","*","(",")","-","_",
                   "=","+","[","]","{","}",";",":",",",".","?","/">>]

-----------------------------------------------------------------------------
(* Bounds of the model *)

NumWords == 3        \* distinct 32-bit words the random source can return
TapeLen == 3         \* period of the word sequence the random source returns
MaxGenLength == 8    \* largest length handed to generatePassword on its own
LenMargin == 3       \* estimateStrength is tried on 0-LenMargin .. MAX_LENGTH+LenMargin
NumAppTapes == 4     \* word sequences the App's generations draw from
MaxEvents == 3       \* handlers run after the mount effects
MaxCopies == 3       \* handleCopy calls

-----------------------------------------------------------------------------
(* The random source: window.crypto.getRandomValues(new Uint32Array(1)).   *)
(* A word is an unsigned 32-bit integer kept as its two 16-bit halves, so  *)
(* that the whole range 0 .. 2^32 - 1 is representable.  A tape is the     *)
(* periodic sequence of words the source returns; pos counts the words     *)
(* read so far.                                                            *)

Max(a, b) == IF a >= b THEN a ELSE b
Min(a, b) == IF a <= b THEN a ELSE b

WordOf(k) == [hi |-> (k * 65535) % 65536, lo |-> (k * 65535) % 65536]

Words == {WordOf(k) : k \in 0..(NumWords - 1)}

RECURSIVE Pow(_, _)
Pow(b, e) == IF e = 0 THEN 1 ELSE b * Pow(b, e - 1)

\* The k-th tape: the base-NumWords digits of k select its words.
TapeOf(k) == [i \in 1..TapeLen |-> WordOf((k \div Pow(NumWords, i - 1)) % NumWords)]

Tapes == {TapeOf(k) : k \in 0..(Pow(NumWords, TapeLen) - 1)}

AppTapes == {TapeOf(k) : k \in 0..(NumAppTapes - 1)}

RandomSource(tape) == [tape |-> tape, pos |-> 0]

getRandomValues(rs) == rs.tape[(rs.pos % Len(rs.tape)) + 1]

\* arr[0] % maxExclusive on the full 32-bit value hi * 2^16 + lo.
WordMod(w, m) == (((w.hi % m) * (65536 % m)) + (w.lo % m)) % m

cryptoRandomInt(maxExclusive, rs) ==
    IF maxExclusive <= 0
    THEN [val |-> 0, rs |-> rs]
    ELSE [val |-> WordMod(getRandomValues(rs), maxExclusive),
          rs  |-> [rs EXCEPT !.pos = @ + 1]]

-----------------------------------------------------------------------------
(* sanitizeCharset, shuffleCrypto, buildPools, generatePassword *)

sanitizeCharset_keepAll(str, easy) == str

sanitizeCharset(str, easy) ==
    IF ~easy THEN str ELSE SelectSeq(str, LAMBDA ch : ch \notin AMBIGUOUS)

\* [a[i], a[j]] = [a[j], a[i]] with 0-based i, j
swap_overwrite(a, i, j) == [a EXCEPT ![i + 1] = a[j + 1]]

swap(a, i, j) == [a EXCEPT ![i + 1] = a[j + 1], ![j + 1] = a[i + 1]]

RECURSIVE shuffleLoop(_, _, _)
shuffleLoop(a, i, rs) ==
    IF i > 0
    THEN LET r == cryptoRandomInt(i + 1, rs)
         IN  shuffleLoop(swap(a, i, r.val), i - 1, r.rs)
    ELSE [a |-> a, rs |-> rs]

shuffleCrypto(array, rs) == shuffleLoop(array, Len(array) - 1, rs)

buildPools_upperAlways(options) ==
    LET pools ==
            <<sanitizeCharset(CHARSETS.upper, options.easyToRead)>>
            \o (IF options.useLower
                THEN <<sanitizeCharset(CHARSETS.lower, options.easyToRead)>> ELSE <<>>)
            \o (IF options.useDigits
                THEN <<sanitizeCharset(CHARSETS.digits, options.easyToRead)>> ELSE <<>>)
            \o (IF options.useSymbols
                THEN <<sanitizeCharset(CHARSETS.symbols, options.easyToRead)>> ELSE <<>>)
    IN  SelectSeq(pools, LAMBDA p : Len(p) > 0)

buildPools(options) ==
    LET pools ==
            (IF options.useUpper
             THEN <<sanitizeCharset(CHARSETS.upper, options.easyToRead)>> ELSE <<>>)
            \o (IF options.useLower
                THEN <<sanitizeCharset(CHARSETS.lower, options.easyToRead)>> ELSE <<>>)
            \o (IF options.useDigits
                THEN <<sanitizeCharset(CHARSETS.digits, options.easyToRead)>> ELSE <<>>)
            \o (IF options.useSymbols
                THEN <<sanitizeCharset(CHARSETS.symbols, options.easyToRead)>> ELSE <<>>)
    IN  SelectSeq(pools, LAMBDA p : Len(p) > 0)

\* One draw: pool[cryptoRandomInt(pool.length)] appended to the characters
\* drawn so far.  st = [out: the characters, rs: the random source].
drawFrom(pool, st) ==
    LET r == cryptoRandomInt(Len(pool), st.rs)
    IN  [out |-> Append(st.out, pool[r.val + 1]), rs |-> r.rs]

\* pools.map((pool) => pool[cryptoRandomInt(pool.length)]), left to right
RECURSIVE requiredFrom(_, _, _)
requiredFrom(pools, k, st) ==
    IF k > Len(pools) THEN st ELSE requiredFrom(pools, k + 1, drawFrom(pools[k], st))

\* pools.join("")
RECURSIVE join(_)
join(pools) == IF pools = <<>> THEN <<>> ELSE Head(pools) \o join(Tail(pools))

remainingCount_noSubtract(len, required) == Max(0, len)

remainingCount_atLeastOne(len, required) == Max(1, len - Len(required))

remainingCount(len, required) == Max(0, len - Len(required))

\* Array.from({ length: n }, () => combined[cryptoRandomInt(combined.length)])
RECURSIVE remainingFrom(_, _, _)
remainingFrom(combined, n, st) ==
    IF n <= 0 THEN st ELSE remainingFrom(combined, n - 1, drawFrom(combined, st))

\* The returned string and the number of words read from the random source.
generatePassword(len, options, tape) ==
    LET pools == buildPools(options)
    IN  IF Len(pools) = 0
        THEN [value |-> <<>>, used |-> 0]
        ELSE LET required == requiredFrom(pools, 1, [out |-> <<>>, rs |-> RandomSource(tape)])
                 filled   == remainingFrom(join(pools),
                                           remainingCount(len, required.out),
                                           required)
                 shuffled == shuffleCrypto(filled.out, filled.rs)
             IN  [value |-> shuffled.a, used |-> shuffled.rs.pos]

-----------------------------------------------------------------------------
(* estimateStrength: level 1, 2, 3 carry the labels of lines 91-93 *)

estimateStrength_lenClamped(len, pools, hasSymbols) ==
    LET lenScore     == Max(0, Min(60, (len - 6) * 6))
        varietyScore == pools * 12
        symbolsBonus == IF hasSymbols THEN 10 ELSE 0
        score        == Max(0, Min(100, lenScore + varietyScore + symbolsBonus))
    IN  IF score < 45 THEN [level |-> 1, score |-> score]
        ELSE IF score < 75 THEN [level |-> 2, score |-> score]
        ELSE [level |-> 3, score |-> score]

estimateStrength(len, pools, hasSymbols) ==
    LET lenScore     == Min(60, (len - 6) * 6)
        varietyScore == pools * 12
        symbolsBonus == IF hasSymbols THEN 10 ELSE 0
        score        == Max(0, Min(100, lenScore + varietyScore + symbolsBonus))
    IN  IF score < 45 THEN [level |-> 1, score |-> score]
        ELSE IF score < 75 THEN [level |-> 2, score |-> score]
        ELSE [level |-> 3, score |-> score]

-----------------------------------------------------------------------------
(* localStorage and JSON.  A stored text is missing (getItem returns null), *)
(* empty, not JSON ("garbage"), or the JSON text of a value.  A JavaScript *)
(* value is null, a number, a boolean, a string or an array (of which only *)
(* the length matters here), an object with some fields, or undefined.     *)

FieldNames == {"length", "useUpper", "useLower", "useDigits", "useSymbols", "easyToRead"}
FlagNames == FieldNames \ {"length"}

Undefined == [t |-> "undefined"]
JNull == [t |-> "null"]
JNum(n) == [t |-> "number", n |-> n]
JBool(b) == [t |-> "boolean", b |-> b]
JStr(n) == [t |-> "string", len |-> n]
JArr(n) == [t |-> "array", len |-> n]
JObj(f) == [t |-> "object", fields |-> f]

Missing == [kind |-> "missing"]
Empty == [kind |-> "empty"]
Garbage == [kind |-> "garbage"]
Text(v) == [kind |-> "json", value |-> v]

\* JSON.parse(raw): throws a SyntaxError on text that is not JSON.
JSONparse(raw) ==
    IF raw.kind = "json"
    THEN [threw |-> FALSE, value |-> raw.value]
    ELSE [threw |-> TRUE]

\* saved.<name> for a value that is not null (on null the access throws).
Get(v, name) ==
    CASE v.t = "object" -> IF name \in DOMAIN v.fields THEN v.fields[name] ELSE Undefined
      [] v.t \in {"string", "array"} -> IF name = "length" THEN JNum(v.len) ELSE Undefined
      [] OTHER -> Undefined

typeof(v) ==
    CASE v.t \in {"null", "array", "object"} -> "object"
      [] OTHER -> v.t

\* JSON.stringify(payload) of the persist effect
JSONstringify(s) ==
    Text(JObj([f \in FieldNames |->
                 IF f = "length" THEN JNum(s.length) ELSE JBool(s[f])]))

-----------------------------------------------------------------------------
(* The App component *)

Settings ==
    [length |-> length, useUpper |-> useUpper, useLower |-> useLower,
     useDigits |-> useDigits, useSymbols |-> useSymbols, easyToRead |-> easyToRead]

Defaults ==
    [length |-> DEFAULT_LENGTH, useUpper |-> TRUE, useLower |-> TRUE,
     useDigits |-> TRUE, useSymbols |-> FALSE, easyToRead |-> TRUE]

OptionsOf(s) ==
    [useUpper |-> s.useUpper, useLower |-> s.useLower, useDigits |-> s.useDigits,
     useSymbols |-> s.useSymbols, easyToRead |-> s.easyToRead]

poolsCountOf(s) ==
    Cardinality({f \in {"useUpper", "useLower", "useDigits", "useSymbols"} : s[f]})

effectiveMinLengthOf(s) == Max(MIN_LENGTH, poolsCountOf(s))

canGenerateOf_anyLength(s) == poolsCountOf(s) > 0

canGenerateOf(s) == poolsCountOf(s) > 0 /\ s.length >= effectiveMinLengthOf(s)

poolsCount == poolsCountOf(Settings)
effectiveMinLength == effectiveMinLengthOf(Settings)
canGenerate == canGenerateOf(Settings)
strength == estimateStrength(length, poolsCount, useSymbols)

\* The load effect: the settings once its setters have been applied to s.
loadPrefs(raw, s) ==
    IF raw.kind \in {"missing", "empty"} THEN s
    ELSE LET parsed == JSONparse(raw)
         IN  IF parsed.threw THEN s
             ELSE IF parsed.value.t = "null" THEN s
             ELSE LET saved == parsed.value
                  IN  [f \in FieldNames |->
                         IF f = "length"
                         THEN IF typeof(Get(saved, f)) = "number"
                              THEN Get(saved, f).n ELSE s[f]
                         ELSE IF typeof(Get(saved, f)) = "boolean"
                              THEN Get(saved, f).b ELSE s[f]]

\* The clamp effect runs on mount and when effectiveMinLength has changed.
clampEffect(ran, s, queued) ==
    IF ran /\ s.length < effectiveMinLengthOf(s)
    THEN [queued EXCEPT !.length = effectiveMinLengthOf(s)]
    ELSE queued

historyUpdate_keepAll(next, prev) == <<next>> \o prev

historyUpdate(next, prev) ==
    SubSeq(<<next>> \o SelectSeq(prev, LAMBDA p : p # next), 1,
           Min(3, 1 + Len(SelectSeq(prev, LAMBDA p : p # next))))

NoCall == [fn |-> "none"]
Pending == [pending |-> TRUE]

\* A change of settings s -> t made by a handler: the re-render runs the
\* clamp effect if effectiveMinLength changed, then the persist effect.
Commit(s, t) ==
    LET u == clampEffect(effectiveMinLengthOf(t) # effectiveMinLengthOf(s), t, t)
    IN  /\ length' = u.length
        /\ useUpper' = u.useUpper
        /\ useLower' = u.useLower
        /\ useDigits' = u.useDigits
        /\ useSymbols' = u.useSymbols
        /\ easyToRead' = u.easyToRead
        /\ storage' = IF u = s THEN storage ELSE JSONstringify(u)

\* handleGenerate in a render whose settings are s
Generate(s, tape) ==
    IF ~canGenerateOf(s)
    THEN UNCHANGED <<outputVars, coreVars>>
    ELSE /\ call' = [fn |-> "generatePassword", length |-> s.length,
                      options |-> OptionsOf(s), tape |-> tape]
         /\ ret' = generatePassword(s.length, OptionsOf(s), tape)
         /\ password' = ret'.value
         /\ history' = historyUpdate(password', history)
         /\ genLog' = Append(genLog, password')

\* The effects of the first commit, in order: load, persist, clamp, generate;
\* then the re-render with the queued updates and its persist effect.
Mount ==
    /\ ~mounted
    /\ \E tape \in AppTapes :
         LET s0     == Settings
             loaded == loadPrefs(storage, s0)
             queued == clampEffect(TRUE, s0, loaded)
         IN  /\ length' = queued.length
             /\ useUpper' = queued.useUpper
             /\ useLower' = queued.useLower
             /\ useDigits' = queued.useDigits
             /\ useSymbols' = queued.useSymbols
             /\ easyToRead' = queued.easyToRead
             /\ storage' = JSONstringify(queued)
             /\ Generate(s0, tape)
    /\ mounted' = TRUE
    /\ lastOp' = "mount"
    /\ UNCHANGED <<copyVars, bootRecord, events>>

Toggle(f) ==
    /\ mounted /\ events < MaxEvents
    /\ Commit(Settings, [Settings EXCEPT ![f] = ~@])
    /\ lastOp' = "toggle"
    /\ events' = events + 1
    /\ UNCHANGED <<outputVars, copyVars, coreVars, bootRecord, mounted>>

ToggleUpper == Toggle("useUpper")
ToggleLower == Toggle("useLower")
ToggleDigits == Toggle("useDigits")
ToggleSymbols == Toggle("useSymbols")
ToggleEasyToRead == Toggle("easyToRead")

\* The range input reports a value between its min and max.
SliderStops == {effectiveMinLength, MAX_LENGTH}

MoveSlider ==
    /\ mounted /\ events < MaxEvents
    /\ \E v \in SliderStops :
         /\ v # length
         /\ Commit(Settings, [Settings EXCEPT !.length = v])
    /\ lastOp' = "slider"
    /\ events' = events + 1
    /\ UNCHANGED <<outputVars, copyVars, coreVars, bootRecord, mounted>>

handleGenerate ==
    /\ mounted /\ events < MaxEvents
    /\ \E tape \in AppTapes : Generate(Settings, tape)
    /\ lastOp' = "handleGenerate"
    /\ events' = events + 1
    /\ UNCHANGED <<settingsVars, copyVars, bootVars>>

handleUseHistory ==
    /\ mounted /\ events < MaxEvents
    /\ \E i \in 1..Len(history) : password' = history[i]
    /\ lastOp' = "handleUseHistory"
    /\ events' = events + 1
    /\ UNCHANGED <<settingsVars, history, genLog, copyVars, coreVars, bootVars>>

-----------------------------------------------------------------------------
(* handleCopy: the call up to the await, the two continuations, the timer *)

scheduleReset_noClear(pending, ref, id) == pending \cup {id}

\* if (toastTimerRef.current) clearTimeout(...); ... = setTimeout(...)
scheduleReset(pending, ref, id) ==
    (IF ref # 0 THEN pending \ {ref} ELSE pending) \cup {id}

handleCopy ==
    /\ copies < MaxCopies
    /\ copies' = copies + 1
    /\ pendingWrites' = IF password = <<>> THEN pendingWrites ELSE pendingWrites + 1
    /\ lastOp' = "handleCopy"
    /\ UNCHANGED <<settingsVars, outputVars, coreVars, bootVars, events,
                   copyStatus, toastTimerRef, timers, nextTimerId>>

Settle(status, op) ==
    /\ pendingWrites > 0
    /\ pendingWrites' = pendingWrites - 1
    /\ copyStatus' = status
    /\ timers' = scheduleReset(timers, toastTimerRef, nextTimerId)
    /\ toastTimerRef' = nextTimerId
    /\ nextTimerId' = nextTimerId + 1
    /\ lastOp' = op
    /\ UNCHANGED <<settingsVars, outputVars, coreVars, bootVars, events, copies>>

ClipboardResolve == Settle("copied", "clipboardResolve")
ClipboardReject == Settle("error", "clipboardReject")

TimerFire ==
    /\ \E id \in timers : timers' = timers \ {id}
    /\ copyStatus' = "idle"
    /\ lastOp' = "timerFire"
    /\ UNCHANGED <<settingsVars, outputVars, coreVars, bootVars, events, copies,
                   toastTimerRef, nextTimerId, pendingWrites>>

-----------------------------------------------------------------------------
(* Specifications *)

\* The stored texts the App specification starts from.
AppRecords ==
    {Missing, Garbage, Text(JStr(3)),
     Text(JObj([f \in {"length"} |-> JNum(2)])),
     Text(JObj([f \in FieldNames |-> IF f = "length" THEN JNum(40) ELSE JBool(FALSE)]))}

Constructed ==
    /\ length = DEFAULT_LENGTH
    /\ useUpper = TRUE /\ useLower = TRUE /\ useDigits = TRUE
    /\ useSymbols = FALSE /\ easyToRead = TRUE
    /\ password = <<>> /\ history = <<>> /\ copyStatus = "idle"
    /\ toastTimerRef = 0 /\ timers = {} /\ nextTimerId = 1 /\ pendingWrites = 0
    /\ mounted = FALSE /\ genLog = <<>> /\ lastOp = "none"
    /\ events = 0 /\ copies = 0

Init ==
    /\ Constructed
    /\ storage \in AppRecords
    /\ bootRecord = storage
    /\ call = NoCall /\ ret = Pending

Next ==
    \/ Mount
    \/ ToggleUpper
    \/ ToggleLower
    \/ ToggleDigits
    \/ ToggleSymbols
    \/ ToggleEasyToRead
    \/ MoveSlider
    \/ handleGenerate
    \/ handleUseHistory

Spec == Init /\ [][Next]_vars

\* Copying: the component mounts, then copies are attempted, settle and time out.
CopyNext ==
    \/ Mount
    \/ handleCopy
    \/ ClipboardResolve
    \/ ClipboardReject
    \/ TimerFire

SpecCopy ==
    /\ Init /\ [][CopyNext]_vars
    /\ WF_vars(ClipboardResolve \/ ClipboardReject)
    /\ WF_vars(TimerFire)

\* generatePassword on its own: the arguments are drawn, then it returns.
AllOptions ==
    [useUpper : BOOLEAN, useLower : BOOLEAN, useDigits : BOOLEAN,
     useSymbols : BOOLEAN, easyToRead : BOOLEAN]

GenLengths == (0 - 1)..MaxGenLength

InitGenerate ==
    /\ Constructed
    /\ storage = Missing /\ bootRecord = Missing
    /\ call \in [fn : {"generatePassword"}, length : GenLengths,
                 options : AllOptions, tape : Tapes]
    /\ ret = Pending

ReturnGenerate ==
    /\ call.fn = "generatePassword" /\ ret = Pending
    /\ ret' = generatePassword(call.length, call.options, call.tape)
    /\ UNCHANGED <<settingsVars, outputVars, copyVars, bootVars, call, lastOp, events>>

SpecGenerate == InitGenerate /\ [][ReturnGenerate]_vars

\* estimateStrength on its own
StrengthLengths == (0 - LenMargin)..(MAX_LENGTH + LenMargin)

InitStrength ==
    /\ Constructed
    /\ storage = Missing /\ bootRecord = Missing
    /\ call \in [fn : {"estimateStrength"}, length : StrengthLengths,
                 poolsCount : 0..4, hasSymbols : BOOLEAN]
    /\ ret = Pending

ReturnStrength ==
    /\ call.fn = "estimateStrength" /\ ret = Pending
    /\ ret' = estimateStrength(call.length, call.poolsCount, call.hasSymbols)
    /\ UNCHANGED <<settingsVars, outputVars, copyVars, bootVars, call, lastOp, events>>

SpecStrength == InitStrength /\ [][ReturnStrength]_vars

\* The load of persisted preferences over every shape of stored text
LengthFields == {Undefined, JNull, JNum(0), JNum(7), JNum(40), JStr(2), JBool(TRUE)}
FlagFields == {Undefined, JBool(TRUE), JBool(FALSE), JNum(1)}

ObjectOf(choice) == JObj([f \in {g \in FieldNames : choice[g] # Undefined} |-> choice[f]])

StoredRecords ==
    {Missing, Empty, Garbage, Text(JNull), Text(JNum(5)), Text(JBool(TRUE)),
     Text(JStr(0)), Text(JStr(3)), Text(JArr(0)), Text(JArr(2))}
    \cup {Text(ObjectOf(c)) :
            c \in {d \in [FieldNames -> LengthFields \cup FlagFields] :
                     /\ d["length"] \in LengthFields
                     /\ \A f \in FlagNames : d[f] \in FlagFields}}

InitLoad ==
    /\ Constructed
    /\ storage \in StoredRecords
    /\ bootRecord = storage
    /\ call = NoCall /\ ret = Pending

SpecLoad == InitLoad /\ [][Mount]_vars

-----------------------------------------------------------------------------
(* What the properties are stated in: the categories a call enables, and   *)
(* each category's alphabet with the ambiguous characters taken out.       *)

Range(seq) == {seq[i] : i \in DOMAIN seq}

Categories == {"upper", "lower", "digits", "symbols"}

Enabled(options) ==
    {c \in Categories :
        \/ c = "upper" /\ options.useUpper
        \/ c = "lower" /\ options.useLower
        \/ c = "digits" /\ options.useDigits
        \/ c = "symbols" /\ options.useSymbols}

Alphabet(c, easy) == Range(CHARSETS[c]) \ (IF easy THEN AMBIGUOUS ELSE {})

Generated == call.fn = "generatePassword" /\ ret # Pending

Estimated == call.fn = "estimateStrength" /\ ret # Pending

Clamp(lo, hi, x) == Max(lo, Min(hi, x))

-----------------------------------------------------------------------------
\* C1: with at least one category enabled and length >= the number of enabled
\* categories, generatePassword returns exactly `length` characters.
C1_ExactLength ==
    (Generated /\ Cardinality(Enabled(call.options)) >= 1
               /\ call.length >= Cardinality(Enabled(call.options)))
    => Len(ret.value) = call.length

\* A call with all four categories and room for filler draws has returned.
C1_Witness ==
    /\ Generated
    /\ Cardinality(Enabled(call.options)) = 4
    /\ call.length > 4
    /\ Len(ret.value) = call.length

\* C2: with length >= the number of enabled categories (at least one), the
\* shuffled result holds a character of every enabled category's filtered alphabet.
C2_EveryCategoryPresent ==
    (Generated /\ Cardinality(Enabled(call.options)) >= 1
               /\ call.length >= Cardinality(Enabled(call.options)))
    => \A c \in Enabled(call.options) :
          Range(ret.value) \cap Alphabet(c, call.options.easyToRead) # {}

\* Only required characters were drawn, and the shuffle moved the first
\* category's character away from the front.
C2_Witness ==
    /\ Generated
    /\ Cardinality(Enabled(call.options)) = 4
    /\ call.length = 4
    /\ ret.value[1] \notin Range(CHARSETS.upper)
    /\ \A c \in Categories : Range(ret.value) \cap Alphabet(c, call.options.easyToRead) # {}

\* C3: with easyToRead on, no character of the result is one of 1 l I 0 O o,
\* whatever the categories, the length and the random words.
C3_NoAmbiguousCharacter ==
    (Generated /\ call.options.easyToRead) => Range(ret.value) \cap AMBIGUOUS = {}

\* An easy-to-read call drew index 0 of the filtered digits, which is "2"
\* where the unfiltered alphabet has the ambiguous "0".
C3_Witness ==
    /\ Generated
    /\ call.options.easyToRead /\ call.options.useDigits
    /\ "2" \in Range(ret.value)
    /\ Len(ret.value) >= 2

\* C4 as claimed: the score is clamp(0, 100, lengthScore + 12 * poolsCount + bonus)
\* with lengthScore = clamp(0, 60, (length - 6) * 6), never negative.
C4_LengthScoreNeverNegative ==
    Estimated =>
        ret.score = Clamp(0, 100, Clamp(0, 60, (call.length - 6) * 6)
                                  + call.poolsCount * 12
                                  + (IF call.hasSymbols THEN 10 ELSE 0))

\* C4 amended: lengthScore = min(60, (length - 6) * 6) is capped at 60 but not
\* floored at 0; only the total is clamped to 0..100.  From length 6 upwards the
\* score is the claimed one, and below 6 it is never above it.
C4_LengthScoreOnlyCapped ==
    Estimated =>
        LET bonus   == IF call.hasSymbols THEN 10 ELSE 0
            variety == call.poolsCount * 12
            floored == Clamp(0, 100, Clamp(0, 60, (call.length - 6) * 6) + variety + bonus)
        IN  /\ ret.score = Clamp(0, 100, Min(60, (call.length - 6) * 6) + variety + bonus)
            /\ call.length >= 6 => ret.score = floored
            /\ call.length < 6 => ret.score <= floored

\* A length below 6 has lowered the score under the one the claim computes.
C4_Witness ==
    /\ Estimated
    /\ call.length < 6
    /\ ret.score > 0
    /\ ret.score < Clamp(0, 100, call.poolsCount * 12 + (IF call.hasSymbols THEN 10 ELSE 0))

\* C5: with no category enabled generatePassword returns the empty string, for
\* every length and easyToRead value, and reads no word from the random source.
C5_EmptyWithoutCategories ==
    (Generated /\ Enabled(call.options) = {}) => (ret.value = <<>> /\ ret.used = 0)

\* A call with no category and a positive length has returned.
C5_Witness ==
    /\ Generated
    /\ Enabled(call.options) = {}
    /\ call.length > 0
    /\ call.options.easyToRead

\* C6: generatePassword is invoked only with at least one category enabled and
\* length >= max(MIN_LENGTH, number of enabled categories); a handleGenerate
\* that finds canGenerate false leaves password and history unchanged.
C6_GenerateGuarded ==
    /\ [](call.fn = "generatePassword" =>
            /\ Cardinality(Enabled(call.options)) >= 1
            /\ call.length >= Max(MIN_LENGTH, Cardinality(Enabled(call.options))))
    /\ [][(lastOp' = "handleGenerate" /\ events' = events + 1
           /\ ~(poolsCount > 0 /\ length >= Max(MIN_LENGTH, poolsCount)))
          => (password' = password /\ history' = history /\ call' = call)]_vars

\* handleGenerate ran on a loaded length below the minimum and did nothing:
\* the only generation so far is the one of the mount effect.
C6_Witness ==
    /\ lastOp = "handleGenerate"
    /\ poolsCount > 0
    /\ length < MIN_LENGTH
    /\ Len(genLog) = 1
    /\ call.length = DEFAULT_LENGTH

\* The values of log, most recent first, each once, the first three of them.
RECURSIVE RecentDistinct(_, _)
RecentDistinct(log, acc) ==
    IF log = <<>> \/ Len(acc) = 3 THEN acc
    ELSE LET x == log[Len(log)]
         IN  RecentDistinct(SubSeq(log, 1, Len(log) - 1),
                            IF x \in Range(acc) THEN acc ELSE Append(acc, x))

\* C7: the history holds at most 3 values, none twice, the most recently
\* generated first and the others by their latest generation (so a repeated
\* value moves to the front and a fourth distinct value evicts the oldest);
\* handleUseHistory changes the displayed password only.
C7_HistoryRecentDistinct ==
    /\ [](/\ Len(history) <= 3
          /\ Cardinality(Range(history)) = Len(history)
          /\ history = RecentDistinct(genLog, <<>>)
          /\ (genLog # <<>> => history[1] = genLog[Len(genLog)]))
    /\ [][(lastOp' = "handleUseHistory" /\ events' = events + 1)
          => (/\ history' = history
              /\ password' \in Range(history)
              /\ UNCHANGED <<settingsVars, copyStatus, storage, genLog>>)]_vars

\* Four distinct values were generated: the first one has been evicted.
C7_Witness ==
    /\ Len(genLog) = 4
    /\ Cardinality(Range(genLog)) = 4
    /\ Len(history) = 3
    /\ genLog[1] \notin Range(history)

\* The field `name` as the stored text holds it: a field of a JSON object,
\* absent from anything else.
StoredField(raw, name) ==
    IF raw.kind = "json" /\ raw.value.t = "object" /\ name \in DOMAIN raw.value.fields
    THEN raw.value.fields[name]
    ELSE Undefined

\* C8: after the load, every setting whose stored field is absent or wrongly
\* typed (the text missing, not JSON or not an object included) has its default
\* value, and every correctly typed field is applied.
C8_LoadKeepsDefaults ==
    lastOp = "mount" =>
        /\ length = (IF StoredField(bootRecord, "length").t = "number"
                     THEN StoredField(bootRecord, "length").n ELSE Defaults.length)
        /\ \A f \in FlagNames :
              Settings[f] = (IF StoredField(bootRecord, f).t = "boolean"
                             THEN StoredField(bootRecord, f).b ELSE Defaults[f])

\* C9: a write that resolves sets "copied", one that rejects sets "error"; at
\* most one reset timer is pending; handleCopy on an empty password changes
\* nothing; and the status returns to "idle" once the attempts have ended.
C9_CopyStatusResets ==
    /\ [](Cardinality(timers) <= 1)
    /\ [][/\ (pendingWrites' < pendingWrites /\ lastOp' = "clipboardResolve")
             => copyStatus' = "copied"
          /\ (pendingWrites' < pendingWrites /\ lastOp' = "clipboardReject")
             => copyStatus' = "error"
          /\ (copies' > copies /\ password = <<>>)
             => UNCHANGED <<copyStatus, toastTimerRef, timers, nextTimerId,
                            pendingWrites, password, history>>]_vars
    /\ ((copyStatus # "idle" \/ pendingWrites > 0)
          ~> (copyStatus = "idle" /\ pendingWrites = 0 /\ timers = {}))

\* A second attempt failed: its timer replaced the first one.
C9_Witness ==
    /\ lastOp = "clipboardReject"
    /\ copyStatus = "error"
    /\ toastTimerRef > 1
    /\ timers = {toastTimerRef}

\* C10: for every length the result has max(length, enabled categories)
\* characters; with 0 <= length < enabled categories it is not truncated: one
\* character of each enabled category and no filler draw (the words read are
\* the required draws and the shuffle's).
C10_ShortLengthNotTruncated ==
    (Generated /\ Cardinality(Enabled(call.options)) >= 1) =>
        LET n == Cardinality(Enabled(call.options))
        IN  /\ Len(ret.value) = Max(call.length, n)
            /\ (0 <= call.length /\ call.length < n) =>
                  /\ Len(ret.value) = n
                  /\ \A c \in Enabled(call.options) :
                        Cardinality({i \in DOMAIN ret.value :
                            ret.value[i] \in Alphabet(c, call.options.easyToRead)}) = 1
                  /\ ret.used = n + (n - 1)

\* A call with a length below its three or four enabled categories has returned.
C10_Witness ==
    /\ Generated
    /\ Cardinality(Enabled(call.options)) >= 3
    /\ call.length >= 0
    /\ call.length < Cardinality(Enabled(call.options)) - 1
    /\ Len(ret.value) = Cardinality(Enabled(call.options))

=============================================================================
